---- MODULE Spec2Model ----
(***************************************************************************)
(* Model of minesweep.py: Cell and GameBoard.  A board is built by         *)
(* GameBoard.__init__ (cell list, then the mine seeding loop, one          *)
(* iteration per step) and then driven by GameBoard.execute_move.          *)
(* Cells are identified by their 0-based position in GameBoard.board;      *)
(* board[k + 1] is the Python self.board[k].                               *)
(***************************************************************************)
EXTENDS Integers, Sequences, FiniteSets, TLC

\* ---------------------------------------------------------------- bounds
MaxSide == 3
MaxMines == 2
MaxMoves == 3
MaxFloodMoves == 2

\* width, height, num_mines, board, is_lost: the fields of GameBoard;
\* mines_left: the local of __init__; pc: "seeding" while the seeding loop
\* runs, "playing" once the board is built, "raised" after an exception left
\* the program (err names it); moves: the execute_move calls made so far;
\* flag_cleared: whether some F move has returned "cleared" so far;
\* to_check, checked: the locals of explode_cell while its work-list loop is
\* followed one iteration at a time (pc = "flooding"), empty otherwise.
VARIABLES width, height, num_mines, board, mines_left, is_lost,
          pc, err, moves, flag_cleared, to_check, checked

vars == <<width, height, num_mines, board, mines_left, is_lost,
          pc, err, moves, flag_cleared, to_check, checked>>

Min(a, b) == IF a < b THEN a ELSE b

\* ------------------------------------------------------------------ Cell
\* The (i, j) pairs in the order of "for i in range(-1, 2) for j in range(-1, 2)".
Offsets ==
    << <<-1, -1>>, <<-1, 0>>, <<-1, 1>>,
       << 0, -1>>, << 0, 0>>, << 0, 1>>,
       << 1, -1>>, << 1, 0>>, << 1, 1>> >>

\* The filter of the neighbor_coords comprehension, on one offset.
NeighborKept(o, x, y, bw, bh) ==
    /\ 0 <= o[1] + x /\ o[1] + x < bw
    /\ 0 <= o[2] + y /\ o[2] + y < bh
    /\ ~(o[1] = x /\ o[2] = y)

RECURSIVE NeighborFrom(_, _, _, _, _)
NeighborFrom(k, x, y, bw, bh) ==
    IF k > Len(Offsets) THEN <<>>
    ELSE LET o == Offsets[k]
             rest == NeighborFrom(k + 1, x, y, bw, bh)
         IN IF NeighborKept(o, x, y, bw, bh)
            THEN << <<o[1] + x, o[2] + y>> >> \o rest
            ELSE rest

\* Cell.neighbor_coords, a list of (x, y) pairs.
neighbor_coords(x, y, bw, bh) == NeighborFrom(1, x, y, bw, bh)

\* Cell.__init__: a fresh cell.
Cell(x, y, bw, bh) ==
    [x |-> x, y |-> y, value |-> 0, neighbor_coords |-> neighbor_coords(x, y, bw, bh),
     is_visible |-> FALSE, is_flagged |-> FALSE]

is_bomb(cell) == cell.value = -1

\* Mutant of is_correct: a flag on a cell that is no mine passes as correct.
is_correct_flag_any(cell) == is_bomb(cell) => cell.is_flagged

is_correct(cell) == is_bomb(cell) = cell.is_flagged

\* ------------------------------------------------------------- GameBoard
\* The cell list of GameBoard.__init__: y runs over range(width) in the outer
\* loop and x over range(height) in the inner one.
NewBoard(w, h) ==
    [k \in 1..(w * h) |-> Cell((k - 1) % h, (k - 1) \div h, w, h)]

\* GameBoard.flatten on one (x, y) pair.
flatten(c, w) == c[1] + c[2] * w

\* Python list indexing self.board[i]: the 1-based position, 0 for IndexError.
PyIndex(i, n) ==
    IF 0 <= i /\ i < n THEN i + 1
    ELSE IF -n <= i /\ i < 0 THEN i + n + 1
    ELSE 0

\* Mutant of IncrementAll: the "already a bomb" test of increment is left out.
RECURSIVE IncrementAllNoBombTest(_, _, _)
IncrementAllNoBombTest(b, idx, from) ==
    IF from > Len(idx) THEN [board |-> b, raised |-> FALSE]
    ELSE LET k == PyIndex(idx[from], Len(b))
         IN IF b[k].value = 8 THEN [board |-> b, raised |-> TRUE]
            ELSE IncrementAllNoBombTest([b EXCEPT ![k].value = @ + 1], idx, from + 1)

\* Cell.increment applied, in order, to the cells at the indices idx[from..]:
\* a record of the board reached and whether the assertion was raised.
RECURSIVE IncrementAll(_, _, _)
IncrementAll(b, idx, from) ==
    IF from > Len(idx) THEN [board |-> b, raised |-> FALSE]
    ELSE LET k == PyIndex(idx[from], Len(b))
         IN IF b[k].value = -1 THEN IncrementAll(b, idx, from + 1)
            ELSE IF b[k].value = 8 THEN [board |-> b, raised |-> TRUE]
            ELSE IncrementAll([b EXCEPT ![k].value = @ + 1], idx, from + 1)

\* GameBoard.flatten on a list of pairs, as a list of indices.
FlattenList(cells, w) == [n \in 1..Len(cells) |-> flatten(cells[n], w)]

Init ==
    /\ width \in 1..MaxSide
    /\ height \in 1..MaxSide
    /\ num_mines \in 0..Min(MaxMines, width * height - 1)
    /\ board = NewBoard(width, height)
    /\ mines_left = num_mines
    /\ is_lost = FALSE
    /\ pc = IF num_mines > 0 THEN "seeding" ELSE "playing"
    /\ err = ""
    /\ moves = 0
    /\ flag_cleared = FALSE
    /\ to_check = <<>>
    /\ checked = <<>>

\* One iteration of the "while mines_left > 0" loop with random index new_bomb.
SeedStep(new_bomb) ==
    /\ pc = "seeding"
    /\ mines_left > 0
    /\ LET k == PyIndex(new_bomb, Len(board))
           neighbors == board[k].neighbor_coords
           placed == [board EXCEPT ![k].value = -1]
           inc == IncrementAll(placed, FlattenList(neighbors, width), 1)
       IN IF board[k].value = -1
          THEN UNCHANGED <<board, mines_left, pc, err>>       \* set_bomb returned False
          ELSE IF Len(neighbors) = 0
          THEN /\ board' = placed                              \* [] is falsy too
               /\ UNCHANGED <<mines_left, pc, err>>
          ELSE IF Len(neighbors) = 1
          THEN /\ board' = placed                              \* flatten returned an int
               /\ pc' = "raised"
               /\ err' = "TypeError"
               /\ UNCHANGED mines_left
          ELSE IF inc.raised
          THEN /\ board' = inc.board
               /\ pc' = "raised"
               /\ err' = "AssertionError"
               /\ UNCHANGED mines_left
          ELSE /\ board' = inc.board
               /\ mines_left' = mines_left - 1
               /\ pc' = IF mines_left - 1 > 0 THEN "seeding" ELSE "playing"
               /\ err' = err
    /\ UNCHANGED <<width, height, num_mines, is_lost, moves, flag_cleared,
                   to_check, checked>>

Seed == \E new_bomb \in 0..(width * height - 1) : SeedStep(new_bomb)

\* ------------------------------------------------------------ move text
\* The integers that move text can name, and their decimal text.
CoordRange == (-1)..MaxSide

NumText == [n \in CoordRange |-> ToString(n)]

CmdTokens == {"F", "X", "x", "Z"}

\* str.upper() on a command token.
Upper(t) ==
    CASE t = "f" -> "F"
      [] t = "x" -> "X"
      [] t = "z" -> "Z"
      [] OTHER -> t

\* int(token): whether it parses, and its value.
IsInt(t) == \E n \in CoordRange : NumText[n] = t

int(t) == CHOOSE n \in CoordRange : NumText[n] = t

\* Move text, as the token list in_str.replace(" ", ",").split(",") yields.
WellFormedInputs ==
    {<<c, NumText[x], NumText[y]>> : c \in CmdTokens, x \in CoordRange, y \in CoordRange}

MalformedInputs ==
    {<<"X", "0">>, <<"X", "0", "0", "0">>, <<"X", "a", "0">>, <<"F", "0", "b">>}

Inputs == WellFormedInputs \cup MalformedInputs

\* GameBoard._try_parse_input: (success, value).
try_parse_input(tokens) ==
    IF Len(tokens) > 3
    THEN [success |-> FALSE, val |-> <<"Too many tokens in input string: ">> \o tokens]
    ELSE IF Len(tokens) < 3
    THEN [success |-> FALSE, val |-> <<"Not enough tokens in input string: ">> \o tokens]
    ELSE IF ~(IsInt(tokens[2]) /\ IsInt(tokens[3]))
    THEN [success |-> FALSE, val |-> <<"Invalid numeric points in input: ">> \o tokens]
    ELSE [success |-> TRUE, val |-> <<Upper(tokens[1]), int(tokens[2]), int(tokens[3])>>]

\* ------------------------------------------------------- GameBoard moves
is_valid_cell(x, y, b, w) == flatten(<<x, y>>, w) <= Len(b)

\* GameBoard.is_won: the loop over self.board from position k on.
RECURSIVE WonFrom(_, _)
WonFrom(b, k) ==
    IF k > Len(b) THEN TRUE
    ELSE IF ~is_correct(b[k]) THEN FALSE
    ELSE WonFrom(b, k + 1)

is_won == WonFrom(board, 1)

InSeq(e, s) == \E n \in 1..Len(s) : s[n] = e

\* The positions of the cells named by Cell.get_all_neighbors() of cell k.
TouchingCells(b, k, w) ==
    LET n == b[k].neighbor_coords
    IN [m \in 1..Len(n) |-> PyIndex(flatten(n[m], w), Len(b))]

NotBombPos(b, s) ==
    LET Keep(k) == b[k].value >= 0 IN SelectSeq(s, Keep)

\* Mutant of FloodLoop: the "not cell.is_flagged" test is left out.
RECURSIVE FloodLoopNoFlag(_, _, _, _)
FloodLoopNoFlag(b, seen, todo, w) ==
    IF Len(todo) = 0 THEN [board |-> b, checked |-> seen]
    ELSE LET cell == todo[Len(todo)]
             rest == SubSeq(todo, 1, Len(todo) - 1)
         IN IF InSeq(cell, seen) THEN FloodLoopNoFlag(b, seen, rest, w)
            ELSE IF ~is_bomb(b[cell])
            THEN LET shown == [b EXCEPT ![cell].is_visible = TRUE]
                     done == Append(seen, cell)
                 IN IF b[cell].value = 0
                    THEN FloodLoopNoFlag(shown, done,
                                   rest \o NotBombPos(b, TouchingCells(b, cell, w)), w)
                    ELSE FloodLoopNoFlag(shown, done, rest, w)
            ELSE FloodLoopNoFlag(b, seen, rest, w)

\* Mutant of FloodLoop: "break" in place of "continue" on a checked cell.
RECURSIVE FloodLoopBreak(_, _, _, _)
FloodLoopBreak(b, seen, todo, w) ==
    IF Len(todo) = 0 THEN [board |-> b, checked |-> seen]
    ELSE LET cell == todo[Len(todo)]
             rest == SubSeq(todo, 1, Len(todo) - 1)
         IN IF InSeq(cell, seen) THEN [board |-> b, checked |-> seen]
            ELSE IF ~is_bomb(b[cell]) /\ ~b[cell].is_flagged
            THEN LET shown == [b EXCEPT ![cell].is_visible = TRUE]
                     done == Append(seen, cell)
                 IN IF b[cell].value = 0
                    THEN FloodLoopBreak(shown, done,
                                   rest \o NotBombPos(b, TouchingCells(b, cell, w)), w)
                    ELSE FloodLoopBreak(shown, done, rest, w)
            ELSE FloodLoopBreak(b, seen, rest, w)

\* Mutant of FloodLoop: the neighbors of every revealed cell are pushed,
\* whatever its value.
RECURSIVE FloodLoopPastNumbers(_, _, _, _)
FloodLoopPastNumbers(b, seen, todo, w) ==
    IF Len(todo) = 0 THEN [board |-> b, checked |-> seen]
    ELSE LET cell == todo[Len(todo)]
             rest == SubSeq(todo, 1, Len(todo) - 1)
         IN IF InSeq(cell, seen) THEN FloodLoopPastNumbers(b, seen, rest, w)
            ELSE IF ~is_bomb(b[cell]) /\ ~b[cell].is_flagged
            THEN LET shown == [b EXCEPT ![cell].is_visible = TRUE]
                     done == Append(seen, cell)
                 IN FloodLoopPastNumbers(shown, done,
                                   rest \o NotBombPos(b, TouchingCells(b, cell, w)), w)
            ELSE FloodLoopPastNumbers(b, seen, rest, w)

\* The work-list loop of explode_cell; to_check.pop() takes the last element.
RECURSIVE FloodLoop(_, _, _, _)
FloodLoop(b, seen, todo, w) ==
    IF Len(todo) = 0 THEN [board |-> b, checked |-> seen]
    ELSE LET cell == todo[Len(todo)]
             rest == SubSeq(todo, 1, Len(todo) - 1)
         IN IF InSeq(cell, seen) THEN FloodLoop(b, seen, rest, w)
            ELSE IF ~is_bomb(b[cell]) /\ ~b[cell].is_flagged
            THEN LET shown == [b EXCEPT ![cell].is_visible = TRUE]
                     done == Append(seen, cell)
                 IN IF b[cell].value = 0
                    THEN FloodLoop(shown, done,
                                   rest \o NotBombPos(b, TouchingCells(b, cell, w)), w)
                    ELSE FloodLoop(shown, done, rest, w)
            ELSE FloodLoop(b, seen, rest, w)

\* Mutant of AllVisible: the explosion also marks the mines, and only them,
\* with flags.
AllVisibleMinesMarked(b) ==
    [k \in 1..Len(b) |->
        [b[k] EXCEPT !.is_visible = TRUE, !.is_flagged = (b[k].value = -1)]]

\* Mutant of AllVisible: flagged cells are left as they are.
AllVisibleButFlagged(b) ==
    [k \in 1..Len(b) |->
        IF b[k].is_flagged THEN b[k] ELSE [b[k] EXCEPT !.is_visible = TRUE]]

AllVisible(b) == [k \in 1..Len(b) |-> [b[k] EXCEPT !.is_visible = TRUE]]

\* Mutant of explode_cell: a flagged mine does not explode.
explode_cell_spares_flagged(x, y, b, lost, w) ==
    LET index == PyIndex(flatten(<<x, y>>, w), Len(b))
    IN IF index = 0
       THEN [board |-> b, is_lost |-> lost, text |-> "", raised |-> TRUE]
       ELSE IF is_bomb(b[index]) /\ ~b[index].is_flagged
       THEN [board |-> AllVisible(b), is_lost |-> TRUE, text |-> "a bomb!!", raised |-> FALSE]
       ELSE [board |-> FloodLoop(b, <<>>, <<index>>, w).board, is_lost |-> lost,
             text |-> "not a bomb. Whew!", raised |-> FALSE]

\* GameBoard.explode_cell(x, y): the board, the lost flag, the text returned
\* and whether an exception left the call.
explode_cell(x, y, b, lost, w) ==
    LET index == PyIndex(flatten(<<x, y>>, w), Len(b))
    IN IF index = 0
       THEN [board |-> b, is_lost |-> lost, text |-> "", raised |-> TRUE]
       ELSE IF is_bomb(b[index])
       THEN [board |-> AllVisible(b), is_lost |-> TRUE, text |-> "a bomb!!", raised |-> FALSE]
       ELSE [board |-> FloodLoop(b, <<>>, <<index>>, w).board, is_lost |-> lost,
             text |-> "not a bomb. Whew!", raised |-> FALSE]

\* GameBoard.toggle_flag(x, y), with Cell.toggle_flag.
toggle_flag(x, y, b, lost, w) ==
    LET index == PyIndex(flatten(<<x, y>>, w), Len(b))
    IN IF index = 0
       THEN [board |-> b, is_lost |-> lost, text |-> "", raised |-> TRUE]
       ELSE [board |-> [b EXCEPT ![index].is_flagged = ~@], is_lost |-> lost,
             text |-> IF ~b[index].is_flagged THEN "flagged" ELSE "cleared",
             raised |-> FALSE]

Point(x, y) == <<"(", ToString(x), ", ", ToString(y), ")">>

\* Mutant of execute_move: no "Unknown command" test, so that whatever is
\* not F is taken for X.
execute_move_no_unknown(tokens, b, lost, w) ==
    LET parsed == try_parse_input(tokens)
        same(msg) == [board |-> b, is_lost |-> lost, result |-> msg, raised |-> FALSE]
    IN IF ~parsed.success THEN same(parsed.val)
       ELSE LET cmd == parsed.val[1]
                x == parsed.val[2]
                y == parsed.val[3]
            IN IF ~is_valid_cell(x, y, b, w)
               THEN same(<<"Point is not on the board (remember, it's zero-based)">>)
               ELSE IF cmd = "F"
               THEN LET r == toggle_flag(x, y, b, lost, w)
                    IN [board |-> r.board, is_lost |-> r.is_lost, raised |-> r.raised,
                        result |-> Point(x, y) \o <<" is ", r.text>>]
               ELSE LET r == explode_cell(x, y, b, lost, w)
                    IN [board |-> r.board, is_lost |-> r.is_lost, raised |-> r.raised,
                        result |-> Point(x, y) \o <<" was ", r.text>>]

\* GameBoard.execute_move(in_str) on board b: the state it leaves and the
\* message it returns (a list of text pieces), or raised.
execute_move(tokens, b, lost, w) ==
    LET parsed == try_parse_input(tokens)
        same(msg) == [board |-> b, is_lost |-> lost, result |-> msg, raised |-> FALSE]
    IN IF ~parsed.success THEN same(parsed.val)
       ELSE LET cmd == parsed.val[1]
                x == parsed.val[2]
                y == parsed.val[3]
            IN IF ~is_valid_cell(x, y, b, w)
               THEN same(<<"Point is not on the board (remember, it's zero-based)">>)
               ELSE IF cmd \notin {"F", "X"}
               THEN same(<<"Unknown command '", cmd, "': ">> \o tokens)
               ELSE IF cmd = "F"
               THEN LET r == toggle_flag(x, y, b, lost, w)
                    IN [board |-> r.board, is_lost |-> r.is_lost, raised |-> r.raised,
                        result |-> Point(x, y) \o <<" is ", r.text>>]
               ELSE LET r == explode_cell(x, y, b, lost, w)
                    IN [board |-> r.board, is_lost |-> r.is_lost, raised |-> r.raised,
                        result |-> Point(x, y) \o <<" was ", r.text>>]

\* One call of execute_move by the driver.
ExecuteMove(tokens) ==
    /\ pc = "playing"
    /\ moves < MaxMoves
    /\ \E r \in {execute_move(tokens, board, is_lost, width)} :
          IF r.raised
          THEN /\ pc' = "raised"
               /\ err' = "IndexError"
               /\ UNCHANGED <<board, is_lost, flag_cleared>>
          ELSE /\ board' = r.board
               /\ is_lost' = r.is_lost
               /\ flag_cleared' = (flag_cleared \/ r.result[Len(r.result)] = "cleared")
               /\ UNCHANGED <<pc, err>>
    /\ moves' = moves + 1
    /\ UNCHANGED <<width, height, num_mines, mines_left, to_check, checked>>

Move == \E tokens \in Inputs : ExecuteMove(tokens)

\* Construction alone, with every mine count below the board area.
SeedInit ==
    /\ width \in 1..MaxSide
    /\ height \in 1..MaxSide
    /\ num_mines \in 0..(width * height - 1)
    /\ board = NewBoard(width, height)
    /\ mines_left = num_mines
    /\ is_lost = FALSE
    /\ pc = IF num_mines > 0 THEN "seeding" ELSE "playing"
    /\ err = ""
    /\ moves = 0
    /\ flag_cleared = FALSE
    /\ to_check = <<>>
    /\ checked = <<>>

SeedSpec == SeedInit /\ [][Seed]_vars

Next == Seed \/ Move

Spec == Init /\ [][Next]_vars

\* ------------------------------------- explode_cell, one iteration a step
\* Mutant of FloodIter: the "if cell in checked: continue" test is left out.
FloodIterNoCheckedTest(b, done, todo, w) ==
    LET cell == todo[Len(todo)]
        rest == SubSeq(todo, 1, Len(todo) - 1)
    IN IF ~is_bomb(b[cell]) /\ ~b[cell].is_flagged
       THEN [board |-> [b EXCEPT ![cell].is_visible = TRUE],
             checked |-> Append(done, cell),
             to_check |-> IF b[cell].value = 0
                          THEN rest \o NotBombPos(b, TouchingCells(b, cell, w))
                          ELSE rest]
       ELSE [board |-> b, checked |-> done, to_check |-> rest]

\* One iteration of "while len(to_check) > 0": the board and the two lists
\* it leaves.
FloodIter(b, done, todo, w) ==
    LET cell == todo[Len(todo)]
        rest == SubSeq(todo, 1, Len(todo) - 1)
    IN IF InSeq(cell, done)
       THEN [board |-> b, checked |-> done, to_check |-> rest]
       ELSE IF ~is_bomb(b[cell]) /\ ~b[cell].is_flagged
       THEN [board |-> [b EXCEPT ![cell].is_visible = TRUE],
             checked |-> Append(done, cell),
             to_check |-> IF b[cell].value = 0
                          THEN rest \o NotBombPos(b, TouchingCells(b, cell, w))
                          ELSE rest]
       ELSE [board |-> b, checked |-> done, to_check |-> rest]

\* An F move of the driver.
FlagMove ==
    /\ moves < MaxFloodMoves
    /\ \E tokens \in Inputs :
          /\ Len(tokens) = 3 /\ Upper(tokens[1]) = "F"
          /\ ExecuteMove(tokens)

\* An X move that explode_cell is reached with: up to the start of the
\* work-list loop, or the whole of the mine branch.
BeginExplode(x, y) ==
    /\ pc = "playing"
    /\ moves < MaxFloodMoves
    /\ is_valid_cell(x, y, board, width)
    /\ LET index == PyIndex(flatten(<<x, y>>, width), Len(board))
       IN IF index = 0
          THEN /\ pc' = "raised"
               /\ err' = "IndexError"
               /\ UNCHANGED <<board, is_lost, to_check, checked>>
          ELSE IF is_bomb(board[index])
          THEN /\ board' = AllVisible(board)
               /\ is_lost' = TRUE
               /\ UNCHANGED <<pc, err, to_check, checked>>
          ELSE /\ pc' = "flooding"
               /\ checked' = <<>>
               /\ to_check' = <<index>>
               /\ UNCHANGED <<board, is_lost, err>>
    /\ moves' = moves + 1
    /\ UNCHANGED <<width, height, num_mines, mines_left, flag_cleared>>

\* One iteration of the work-list loop.
FloodIterate ==
    /\ pc = "flooding"
    /\ Len(to_check) > 0
    /\ \E r \in {FloodIter(board, checked, to_check, width)} :
          /\ board' = r.board
          /\ checked' = r.checked
          /\ to_check' = r.to_check
    /\ UNCHANGED <<width, height, num_mines, mines_left, is_lost, pc, err, moves,
                   flag_cleared>>

\* The loop ends and explode_cell returns "not a bomb. Whew!".
FloodReturn ==
    /\ pc = "flooding"
    /\ Len(to_check) = 0
    /\ pc' = "playing"
    /\ checked' = <<>>
    /\ UNCHANGED <<width, height, num_mines, board, mines_left, is_lost, err, moves,
                   flag_cleared, to_check>>

Explode == \E x \in CoordRange, y \in CoordRange : BeginExplode(x, y)

FloodNext == Seed \/ FlagMove \/ Explode \/ FloodIterate \/ FloodReturn

\* The program is single-threaded: a loop that can take its next iteration
\* takes it, and a loop that is over returns.
FloodSpec ==
    Init /\ [][FloodNext]_vars /\ WF_vars(FloodIterate) /\ WF_vars(FloodReturn)

\* ---------------------------------------------------- claim vocabulary
Cells == DOMAIN board

MineCells(b) == {k \in DOMAIN b : b[k].value = -1}

Last(s) == s[Len(s)]

InBounds(x, y) == 0 <= x /\ x < width /\ 0 <= y /\ y < height

\* The list position execute_move resolves (x, y) to, 0 when there is none.
Target(x, y) ==
    IF is_valid_cell(x, y, board, width)
    THEN PyIndex(flatten(<<x, y>>, width), Len(board))
    ELSE 0

MoveText(c, x, y) == <<c, NumText[x], NumText[y]>>

\* execute_move(tokens) called in the current state.
Run(tokens) == execute_move(tokens, board, is_lost, width)

SameCells(b) == b = board

Untouched == \A k \in Cells : ~board[k].is_visible /\ ~board[k].is_flagged

\* The number of entries of cell k's neighbor_coords that name a mine.
MineNeighbors(k) ==
    Cardinality({n \in 1..Len(board[k].neighbor_coords) :
        is_bomb(board[PyIndex(flatten(board[k].neighbor_coords[n], width), Len(board))])})

\* ---------------------------------------------------------------- claims
\* C1 (as claimed): once construction has finished, and after any moves,
\* exactly num_mines cells have value -1.
C1_MineCount ==
    pc = "playing" => Cardinality(MineCells(board)) = num_mines

\* C2 (as claimed): after seeding, every non-mine cell's value is the number
\* of mines among the cells its own neighbor_coords name.
C2_AdjacencyValue ==
    pc = "playing" =>
        \A k \in Cells : ~is_bomb(board[k]) => board[k].value = MineNeighbors(k)

\* C3: in every reachable state is_won is true exactly when every cell has
\* (value = -1) = is_flagged, whatever the cells' visibility.
C3_IsWon ==
    is_won <=> \A k \in Cells : (board[k].value = -1) = board[k].is_flagged

C3_Witness ==
    /\ pc = "playing" /\ num_mines > 0 /\ is_won
    /\ \E k \in Cells : board[k].is_visible
    /\ \E k \in Cells : ~board[k].is_visible

\* C4: an X move on in-bounds coordinates whose target cell is a mine makes
\* every cell visible, sets is_lost and returns a text ending in "a bomb!!",
\* whatever is flagged.
C4_RevealMine ==
    pc = "playing" =>
        \A c \in {"X", "x"} \cap CmdTokens, x, y \in CoordRange :
            (InBounds(x, y) /\ is_bomb(board[Target(x, y)])) =>
                LET r == Run(MoveText(c, x, y))
                IN /\ ~r.raised
                   /\ r.is_lost
                   /\ \A k \in DOMAIN r.board : r.board[k].is_visible
                   /\ Last(r.result) = "a bomb!!"

C4_Witness ==
    /\ is_lost
    /\ \A k \in Cells : board[k].is_visible
    /\ \E k \in Cells : is_bomb(board[k]) /\ board[k].is_flagged
    /\ \E k \in Cells : ~is_bomb(board[k]) /\ board[k].is_flagged

\* C5: once is_lost is true every cell is visible, and every later
\* execute_move call leaves is_lost true and every cell visible.
C5_LostIsFinal ==
    [][is_lost =>
        /\ is_lost'
        /\ \A k \in Cells : board[k].is_visible
        /\ \A k \in DOMAIN board' : board'[k].is_visible]_vars

C5_Witness ==
    /\ is_lost /\ moves >= 3
    /\ \E k \in Cells : board[k].is_flagged

\* C6: an X move whose target cell is not a mine makes visible no cell that
\* is a mine or is flagged when the move is made, leaves is_lost as it was
\* and returns a text ending in "not a bomb. Whew!".
C6_RevealSafe ==
    pc = "playing" =>
        \A c \in {"X", "x"} \cap CmdTokens, x, y \in CoordRange :
            (Target(x, y) # 0 /\ ~is_bomb(board[Target(x, y)])) =>
                LET r == Run(MoveText(c, x, y))
                IN /\ ~r.raised
                   /\ r.is_lost = is_lost
                   /\ Last(r.result) = "not a bomb. Whew!"
                   /\ \A k \in Cells :
                        (r.board[k].is_visible /\ ~board[k].is_visible) =>
                            (~is_bomb(board[k]) /\ ~board[k].is_flagged)

C6_Witness ==
    /\ pc = "playing" /\ ~is_lost
    /\ \E k \in Cells :
        /\ board[k].is_visible /\ board[k].value = 0 /\ ~board[k].is_flagged
        /\ \E n \in 1..Len(board[k].neighbor_coords) :
            LET m == PyIndex(flatten(board[k].neighbor_coords[n], width), Len(board))
            IN board[m].is_flagged /\ ~board[m].is_visible
    /\ \E k \in Cells : is_bomb(board[k]) /\ ~board[k].is_visible

\* What C7 says of one state: every X move on a visible cell of value 0
\* changes nothing and returns the "not a bomb. Whew!" text.
RevealAgainChangesNothing ==
    \A c \in {"X", "x"} \cap CmdTokens, x, y \in CoordRange :
        (/\ Target(x, y) # 0
         /\ board[Target(x, y)].is_visible
         /\ board[Target(x, y)].value = 0) =>
            LET r == Run(MoveText(c, x, y))
            IN /\ ~r.raised
               /\ SameCells(r.board)
               /\ r.is_lost = is_lost
               /\ Last(r.result) = "not a bomb. Whew!"

\* C7 (as claimed): in every reachable state, flag moves in between or not,
\* an X move on a visible cell of value 0 changes nothing.
C7_Original == pc = "playing" => RevealAgainChangesNothing

\* C7 (amended): in every reachable state in which no F move has cleared a
\* flag so far, an X move on a visible cell of value 0 changes no cell's
\* visibility, flag or value, nor is_lost, and returns the same text.
C7_RevealIdempotent ==
    (pc = "playing" /\ ~flag_cleared) => RevealAgainChangesNothing

C7_Witness ==
    /\ pc = "playing" /\ ~flag_cleared /\ ~is_lost /\ moves >= 3
    /\ \E k \in Cells :
        /\ board[k].is_visible /\ board[k].value = 0
        /\ \E n \in 1..Len(board[k].neighbor_coords) :
            LET m == PyIndex(flatten(board[k].neighbor_coords[n], width), Len(board))
            IN board[m].is_flagged /\ ~board[m].is_visible

\* C8 (as claimed): a well-formed F or X move whose coordinates are not on
\* the board returns the "Point is not on the board" text and changes nothing.
C8_OutOfBoundsRejected ==
    pc = "playing" =>
        \A c \in {"F", "f", "X", "x"} \cap CmdTokens, x, y \in CoordRange :
            ~InBounds(x, y) =>
                LET r == Run(MoveText(c, x, y))
                IN /\ ~r.raised
                   /\ r.result = <<"Point is not on the board (remember, it's zero-based)">>
                   /\ SameCells(r.board)
                   /\ r.is_lost = is_lost

\* C9: a three-token move with integer in-bounds coordinates and a command
\* that is neither F nor X in any case returns an "Unknown command" text and
\* changes no cell and not is_lost, so is_won and is_lost keep their values.
C9_UnknownCommand ==
    pc = "playing" =>
        \A c \in CmdTokens \ {"F", "f", "X", "x"}, x, y \in CoordRange :
            InBounds(x, y) =>
                LET r == Run(MoveText(c, x, y))
                IN /\ ~r.raised
                   /\ r.result[1] = "Unknown command '"
                   /\ SameCells(r.board)
                   /\ r.is_lost = is_lost
                   /\ WonFrom(r.board, 1) = is_won

C9_Witness ==
    /\ pc = "playing" /\ moves > 0 /\ num_mines > 0
    /\ Untouched /\ ~flag_cleared /\ ~is_lost /\ ~is_won
    /\ \E c \in CmdTokens \ {"F", "f", "X", "x"}, x, y \in CoordRange : InBounds(x, y)

\* C10 (as claimed): an F move on in-bounds (x, y) flips is_flagged of the
\* cell whose position is (x, y) and of no other cell, changes no visibility,
\* no value and not is_lost, and returns "flagged" or "cleared" as the cell
\* ends flagged or not.
C10_FlagFrame ==
    pc = "playing" =>
        \A c \in {"F", "f"} \cap CmdTokens, x, y \in CoordRange :
            InBounds(x, y) =>
                LET r == Run(MoveText(c, x, y))
                IN /\ ~r.raised
                   /\ r.is_lost = is_lost
                   /\ \A k \in Cells :
                        /\ r.board[k].is_visible = board[k].is_visible
                        /\ r.board[k].value = board[k].value
                        /\ (r.board[k].is_flagged # board[k].is_flagged)
                              <=> (board[k].x = x /\ board[k].y = y)
                        /\ (board[k].x = x /\ board[k].y = y) =>
                              Last(r.result) =
                                  (IF r.board[k].is_flagged THEN "flagged" ELSE "cleared")
                   /\ \E k \in Cells : board[k].x = x /\ board[k].y = y

\* The positions (x, y) of a board of the given width and height.
Positions == {<<x, y>> : x \in 0..(width - 1), y \in 0..(height - 1)}

SeqToSet(s) == {s[n] : n \in 1..Len(s)}

\* The in-bounds coordinates 8-adjacent to (x, y), (x, y) itself left out.
Adjacent8(x, y) ==
    {p \in Positions :
        /\ p # <<x, y>>
        /\ p[1] - x \in {-1, 0, 1}
        /\ p[2] - y \in {-1, 0, 1}}

\* C11 (as claimed): for every position (x, y) of the board, the neighbor
\* list computed for it holds exactly the in-bounds 8-adjacent coordinates
\* and never (x, y) itself.
C11_NeighborSet ==
    \A p \in Positions :
        SeqToSet(neighbor_coords(p[1], p[2], width, height)) = Adjacent8(p[1], p[2])

\* C12 (as claimed): for any two positions A and B of the board, B is in the
\* neighbor list computed for A exactly when A is in the one computed for B.
C12_NeighborSymmetric ==
    \A a \in Positions, b \in Positions :
        (b \in SeqToSet(neighbor_coords(a[1], a[2], width, height)))
            <=> (a \in SeqToSet(neighbor_coords(b[1], b[2], width, height)))

VisibleCells(b) == {k \in DOMAIN b : b[k].is_visible}

\* The 3x3 board whose single mine is the cell at (1, 1), nothing flagged or
\* visible, before any move.
CentreMineBoard ==
    /\ pc = "playing" /\ width = 3 /\ height = 3 /\ num_mines = 1
    /\ MineCells(board) = {5}
    /\ Untouched

C14_ConstructionSucceeds ==
    /\ err \notin {"TypeError", "AssertionError"}
    /\ pc = "seeding" => \E k \in Cells : ~is_bomb(board[k])
    /\ pc = "playing" =>
        (mines_left = 0 /\ Cardinality(MineCells(board)) = num_mines)

\* C19 (as claimed): the cell list has width * height cells and the cell
\* stored at index x + y * width has position (x, y), on every board.
C19_RowMajor ==
    /\ Len(board) = width * height
    /\ \A p \in Positions :
        LET k == PyIndex(flatten(p, width), Len(board))
        IN k # 0 /\ board[k].x = p[1] /\ board[k].y = p[2]

Abs(n) == IF n < 0 THEN -n ELSE n

\* The cells 8-adjacent to cell k, by the cells' own positions.
AdjacentCells(k) ==
    {m \in Cells \ {k} :
        /\ Abs(board[m].x - board[k].x) <= 1
        /\ Abs(board[m].y - board[k].y) <= 1}

\* One round of the rule of C15 on S: the 8-adjacent cells, neither mine nor
\* flagged, of the cells of S of value 0.
Expand(S) ==
    S \cup {m \in Cells :
               /\ ~is_bomb(board[m]) /\ ~board[m].is_flagged
               /\ \E c \in S : board[c].value = 0 /\ m \in AdjacentCells(c)}

\* The least set that contains S and is closed under Expand.
RECURSIVE RevealRegion(_)
RevealRegion(S) == IF Expand(S) = S THEN S ELSE RevealRegion(Expand(S))

\* C15 (as claimed): after an X move on an unflagged cell that is no mine,
\* the visible cells are the ones visible before and the cells of the least
\* set R that holds the target and, with every cell of value 0 in it, that
\* cell's 8-adjacent cells that are neither mines nor flagged.
C15_FloodRegion ==
    pc = "playing" =>
        \A c \in {"X", "x"} \cap CmdTokens, x, y \in CoordRange :
            (/\ InBounds(x, y)
             /\ ~is_bomb(board[Target(x, y)])
             /\ ~board[Target(x, y)].is_flagged) =>
                LET r == Run(MoveText(c, x, y))
                IN /\ ~r.raised
                   /\ VisibleCells(r.board)
                        = VisibleCells(board) \cup RevealRegion({Target(x, y)})

\* The work-list loop of explode_cell with the work-list popped as a queue:
\* to_check.pop(0) in place of to_check.pop(), nothing else changed.
RECURSIVE FloodLoopQueue(_, _, _, _)
FloodLoopQueue(b, seen, todo, w) ==
    IF Len(todo) = 0 THEN [board |-> b, checked |-> seen]
    ELSE LET cell == todo[1]
             rest == SubSeq(todo, 2, Len(todo))
         IN IF InSeq(cell, seen) THEN FloodLoopQueue(b, seen, rest, w)
            ELSE IF ~is_bomb(b[cell]) /\ ~b[cell].is_flagged
            THEN LET shown == [b EXCEPT ![cell].is_visible = TRUE]
                     done == Append(seen, cell)
                 IN IF b[cell].value = 0
                    THEN FloodLoopQueue(shown, done,
                                   rest \o NotBombPos(b, TouchingCells(b, cell, w)), w)
                    ELSE FloodLoopQueue(shown, done, rest, w)
            ELSE FloodLoopQueue(b, seen, rest, w)

\* C16: on every board, with any flags, the flood fill from any cell that is
\* no mine ends with the same visible cells whether the work-list is popped
\* as a stack or as a queue.
C16_StackQueueSameSet ==
    pc = "playing" =>
        \A k \in Cells :
            ~is_bomb(board[k]) =>
                VisibleCells(FloodLoop(board, <<>>, <<k>>, width).board)
                    = VisibleCells(FloodLoopQueue(board, <<>>, <<k>>, width).board)

\* A flood fill has run around a flagged cell, and from some cell the two
\* disciplines visit the cells in different orders.
C16_Witness ==
    /\ pc = "playing" /\ ~is_lost /\ num_mines > 0
    /\ Cardinality(VisibleCells(board)) >= 3
    /\ \E k \in Cells : board[k].is_flagged /\ ~board[k].is_visible /\ ~is_bomb(board[k])
    /\ \E k \in Cells :
        /\ ~is_bomb(board[k])
        /\ FloodLoop(board, <<>>, <<k>>, width).checked
             # FloodLoopQueue(board, <<>>, <<k>>, width).checked

NoDuplicates(s) == \A i, j \in 1..Len(s) : i # j => s[i] # s[j]

\* C17: the work-list loop of an X move on a cell that is no mine ends,
\* whatever the board and the flags: no cell is ever in the checked list
\* twice, and once the loop has started the work-list becomes empty and
\* explode_cell returns.
C17_FloodTerminates ==
    /\ [](NoDuplicates(checked))
    /\ (pc = "flooding") ~> (pc = "playing")

\* The loop is under way, has met a flagged cell it did not add to checked,
\* and the cell popped next is already in checked.
C17_Witness ==
    /\ pc = "flooding"
    /\ Len(to_check) > 0
    /\ InSeq(to_check[Len(to_check)], checked)
    /\ Len(checked) >= 3
    /\ \E k \in Cells : board[k].is_flagged /\ ~board[k].is_visible /\ ~InSeq(k, checked)

C20_Original ==
    num_mines > 0 => ~(is_won /\ is_lost)

\* C20 (amended): a step taken while the board is being built, or an
\* execute_move call made while neither is_won nor is_lost is true, never
\* leads to a state where is_won and is_lost are both true.
C20_InProgressExclusive ==
    [][(pc = "seeding" \/ (~is_won /\ ~is_lost)) => ~(is_won' /\ is_lost')]_vars

\* Lost, not won, by revealing one mine right after flagging the other.
C20_Witness ==
    /\ pc = "playing" /\ num_mines = 2 /\ moves = 2
    /\ is_lost /\ ~is_won
    /\ \E k \in Cells : is_bomb(board[k]) /\ board[k].is_flagged
    /\ \E k \in Cells : is_bomb(board[k]) /\ ~board[k].is_flagged
====
